---- MODULE Spec2Model ----
(***************************************************************************)
(* Lock-free work partitioning primitives of src/lockfree/lib.rs:          *)
(*   - atomic_iterator::counter::Counter      (the Countdown Allocator)    *)
(*   - atomic_chunks_mut::AtomicChunksMut     (the Disjoint Chunk          *)
(*                                             Partitioner)                *)
(* Each worker thread calls next() on a shared object.  One atomic access  *)
(* (load / compare_exchange) is one step, so every interleaving of the     *)
(* retry loops is explored.                                                *)
(***************************************************************************)
EXTENDS Integers, Sequences, FiniteSets, TLC

\* ---- bounds of the model -------------------------------------------------
NumWorkers == 2      \* threads sharing one object
MaxSeed == 3         \* largest argument of Counter::new
MaxLen == 3          \* longest target buffer
UsizeBits == 3       \* width of usize in the model
MaxExtraCalls == 1   \* calls a worker still makes after it has seen None

Workers == 1..NumWorkers

\* usize is an unsigned integer of UsizeBits bits.
UsizeModulus == 2 ^ UsizeBits
UsizeMax == UsizeModulus - 1
\* A slice of a type that occupies memory never has more than isize::MAX
\* elements.
IsizeMax == (UsizeModulus \div 2) - 1

Min(a, b) == IF a <= b THEN a ELSE b

SliceLens == 0..Min(MaxLen, IsizeMax)
Steps == 0..UsizeMax
Seeds == 0..Min(MaxSeed, UsizeMax)

VARIABLES
    obj,      \* which object the harness constructed: "none", "counter", "chunks"
    seed,     \* argument given to Counter::new
    count,    \* Counter.count (AtomicUsize)
    slice,    \* AtomicChunksMut.slice: the target buffer, element i at slice[i+1]
    step,     \* AtomicChunksMut.step
    next,     \* AtomicChunksMut.next (AtomicUsize)
    pc,       \* per worker: position in next() or in the worker loop
    current,  \* per worker: local `current`
    end,      \* per worker: local `end`
    got,      \* per worker: sequence of the Some(..) results it received
    nones,    \* per worker: number of None results it received
    fails,    \* per worker: failed compare_exchange attempts of the current call
    wpos,     \* per worker: next element offset it writes in its latest chunk
    writers,  \* per element: the workers that wrote it
    log,      \* the successful compare_exchange steps, in the order they occurred
    seen      \* per worker: Len(log) at the load of its current attempt

vars == <<obj, seed, count, slice, step, next, pc, current, end, got, nones,
          fails, wpos, writers, log, seen>>

counterVars == <<seed, count>>
chunkVars == <<slice, step, next, end, wpos, writers>>

\* ---- pure helpers ---------------------------------------------------------

\* usize addition: a debug build panics on overflow, a release build wraps.
Overflow == -1
UsizeAdd(a, b) ==
    IF a + b <= UsizeMax THEN {a + b} ELSE {Overflow, (a + b) % UsizeModulus}

\* Counter::next: `current == 0`
CounterExhausted(cur) == cur = 0

\* Counter::next: the value put in the cell, `current - 1`
CounterNewValue(cur) == cur - 1

\* Counter::next: the value returned, Some(current - 1)
CounterIssued_NoDecrement(cur) == cur
CounterIssued(cur) == cur - 1

\* Counter::next: compare_exchange(current, current - 1).is_ok()
CounterCasOk_ExpectsNew(cell, cur) == cell = cur - 1
CounterCasOk_Blind(cell, cur) == TRUE
CounterCasOk_Stale(cell, cur) == cell <= cur
CounterCasOk(cell, cur) == cell = cur

\* AtomicChunksMut::next: `current == self.slice.len()`
ChunksExhausted_Strict(cur, len) == cur > len
ChunksExhausted_Early(cur, len) == cur + 1 >= len
ChunksExhausted(cur, len) == cur = len

\* AtomicChunksMut::next: std::cmp::min(current + self.step, self.slice.len())
ChunkEnd_NoMin(sum, len) == sum
ChunkEnd_LastIndex(sum, len) == Min(sum, len - 1)
ChunkEnd(sum, len) == Min(sum, len)

\* AtomicChunksMut::next: compare_exchange(current, end).is_ok()
ChunksCasOk_Blind(cell, cur) == TRUE
ChunksCasOk(cell, cur) == cell = cur

\* AtomicChunksMut::next: `current / self.step`
ChunkIndex_NoDivision(cur, stp) == cur
ChunkIndex(cur, stp) == cur \div stp

\* ---- construction ---------------------------------------------------------

Init ==
    /\ obj = "none"
    /\ seed = 0
    /\ count = 0
    /\ slice = <<>>
    /\ step = 0
    /\ next = 0
    /\ pc = [w \in Workers |-> "idle"]
    /\ current = [w \in Workers |-> 0]
    /\ end = [w \in Workers |-> 0]
    /\ got = [w \in Workers |-> <<>>]
    /\ nones = [w \in Workers |-> 0]
    /\ fails = [w \in Workers |-> 0]
    /\ wpos = [w \in Workers |-> 0]
    /\ writers = <<>>
    /\ log = <<>>
    /\ seen = [w \in Workers |-> 0]

\* Counter::new(count)
CounterNew(n) ==
    /\ obj = "none"
    /\ obj' = "counter"
    /\ seed' = n
    /\ count' = n
    /\ UNCHANGED <<chunkVars, pc, current, got, nones, fails, log, seen>>

\* AtomicChunksMut::new(slice, step): every step is accepted.
ChunksNew(len, stp) ==
    /\ obj = "none"
    /\ obj' = "chunks"
    /\ slice' = [i \in 1..len |-> 0]
    /\ writers' = [i \in 1..len |-> {}]
    /\ step' = stp
    /\ next' = 0
    /\ UNCHANGED <<counterVars, pc, current, end, got, nones, fails, wpos, log, seen>>

\* ---- the worker loop ------------------------------------------------------

\* A worker enters next().  Iterator::next may be polled again after None.
Call(w) ==
    /\ obj # "none"
    /\ pc[w] = "idle"
    /\ nones[w] <= MaxExtraCalls
    /\ pc' = [pc EXCEPT ![w] = "load"]
    /\ fails' = [fails EXCEPT ![w] = 0]
    /\ UNCHANGED <<obj, counterVars, chunkVars, current, got, nones, log, seen>>

\* The locals of next() end with the call.
DropLocals(w) ==
    /\ current' = [current EXCEPT ![w] = 0]
    /\ end' = [end EXCEPT ![w] = 0]
    /\ seen' = [seen EXCEPT ![w] = 0]

\* A successful compare_exchange(from, to) by worker w.
Advance(w, from, to) ==
    log' = Append(log, [by |-> w, from |-> from, to |-> to])

ReturnNone(w) ==
    /\ pc' = [pc EXCEPT ![w] = "idle"]
    /\ nones' = [nones EXCEPT ![w] = @ + 1]

Panic(w) ==
    /\ pc' = [pc EXCEPT ![w] = "panicked"]
    /\ UNCHANGED nones

\* A failed compare_exchange: the loop starts over with a fresh load.
Retry_GiveUp(w) ==
    /\ pc' = [pc EXCEPT ![w] = "idle"]
    /\ fails' = [fails EXCEPT ![w] = @ + 1]
    /\ nones' = [nones EXCEPT ![w] = @ + 1]
Retry(w) ==
    /\ pc' = [pc EXCEPT ![w] = "load"]
    /\ fails' = [fails EXCEPT ![w] = @ + 1]
    /\ UNCHANGED nones

\* ---- Counter::next --------------------------------------------------------

CounterLoad(w) ==
    /\ obj = "counter"
    /\ pc[w] = "load"
    /\ IF CounterExhausted(count)
         THEN ReturnNone(w) /\ DropLocals(w)
         ELSE /\ current' = [current EXCEPT ![w] = count]
              /\ seen' = [seen EXCEPT ![w] = Len(log)]
              /\ pc' = [pc EXCEPT ![w] = "cas"]
              /\ UNCHANGED <<nones, end>>
    /\ UNCHANGED <<obj, counterVars, slice, step, next, wpos, writers, got, fails, log>>

CounterCas(w) ==
    /\ obj = "counter"
    /\ pc[w] = "cas"
    /\ IF CounterCasOk(count, current[w])
         THEN /\ count' = CounterNewValue(current[w])
              /\ Advance(w, current[w], CounterNewValue(current[w]))
              /\ got' = [got EXCEPT ![w] = Append(@, CounterIssued(current[w]))]
              /\ pc' = [pc EXCEPT ![w] = "idle"]
              /\ DropLocals(w)
              /\ UNCHANGED <<nones, fails>>
         ELSE /\ Retry(w)
              /\ UNCHANGED <<count, got, current, end, log, seen>>
    /\ UNCHANGED <<obj, seed, slice, step, next, wpos, writers>>

\* ---- AtomicChunksMut::next ------------------------------------------------

ChunksLoad(w) ==
    /\ obj = "chunks"
    /\ pc[w] = "load"
    /\ IF ~(next <= Len(slice))
         THEN Panic(w) /\ DropLocals(w)                    \* assert! fails
         ELSE IF ChunksExhausted(next, Len(slice))
           THEN ReturnNone(w) /\ DropLocals(w)
           ELSE \E sum \in UsizeAdd(next, step) :
                  IF sum = Overflow
                    THEN Panic(w) /\ DropLocals(w)
                    ELSE /\ current' = [current EXCEPT ![w] = next]
                         /\ seen' = [seen EXCEPT ![w] = Len(log)]
                         /\ end' = [end EXCEPT ![w] = ChunkEnd(sum, Len(slice))]
                         /\ pc' = [pc EXCEPT ![w] = "cas"]
                         /\ UNCHANGED nones
    /\ UNCHANGED <<obj, counterVars, slice, step, next, got, fails, wpos, writers, log>>

ChunksCas(w) ==
    /\ obj = "chunks"
    /\ pc[w] = "cas"
    /\ IF ChunksCasOk(next, current[w])
         THEN /\ next' = end[w]
              /\ Advance(w, current[w], end[w])
              /\ IF step = 0                               \* current / 0
                      \/ current[w] > end[w]               \* slice[current..end]
                      \/ end[w] > Len(slice)
                   THEN Panic(w) /\ UNCHANGED <<got, wpos>>
                   ELSE /\ got' = [got EXCEPT ![w] = Append(@,
                                     [index |-> ChunkIndex(current[w], step),
                                      offset |-> current[w],
                                      end |-> end[w]])]
                        /\ wpos' = [wpos EXCEPT ![w] = current[w]]
                        /\ pc' = [pc EXCEPT ![w] =
                                     IF current[w] < end[w] THEN "write" ELSE "idle"]
                        /\ UNCHANGED nones
              /\ DropLocals(w)
              /\ UNCHANGED fails
         ELSE /\ Retry(w)
              /\ UNCHANGED <<next, got, wpos, current, end, log, seen>>
    /\ UNCHANGED <<obj, counterVars, slice, step, writers>>

\* The worker stores its marker in the next element of the view it was given.
WriteMarker(w) ==
    /\ obj = "chunks"
    /\ pc[w] = "write"
    /\ slice' = [slice EXCEPT ![wpos[w] + 1] = w]
    /\ writers' = [writers EXCEPT ![wpos[w] + 1] = @ \cup {w}]
    /\ IF wpos[w] + 1 < got[w][Len(got[w])].end
         THEN /\ wpos' = [wpos EXCEPT ![w] = @ + 1]
              /\ UNCHANGED pc
         ELSE /\ wpos' = [wpos EXCEPT ![w] = 0]
              /\ pc' = [pc EXCEPT ![w] = "idle"]
    /\ UNCHANGED <<obj, counterVars, step, next, end, current, got, nones, fails,
                   log, seen>>

Next ==
    \/ \E n \in Seeds : CounterNew(n)
    \/ \E len \in SliceLens, stp \in Steps : ChunksNew(len, stp)
    \/ \E w \in Workers : Call(w)
    \/ \E w \in Workers : CounterLoad(w)
    \/ \E w \in Workers : CounterCas(w)
    \/ \E w \in Workers : ChunksLoad(w)
    \/ \E w \in Workers : ChunksCas(w)
    \/ \E w \in Workers : WriteMarker(w)

Spec == Init /\ [][Next]_vars

\* The worker loops of test_ai and stress_test_ait (collect, for .. in &it):
\* a worker calls next() until it receives None and then stops.
LoopCall(w) ==
    /\ nones[w] = 0
    /\ Call(w)

WorkerStep(w) ==
    \/ LoopCall(w)
    \/ CounterLoad(w)
    \/ CounterCas(w)
    \/ ChunksLoad(w)
    \/ ChunksCas(w)
    \/ WriteMarker(w)

LoopNext ==
    \/ \E n \in Seeds : CounterNew(n)
    \/ \E len \in SliceLens, stp \in Steps : ChunksNew(len, stp)
    \/ \E w \in Workers : LoopCall(w)
    \/ \E w \in Workers : CounterLoad(w)
    \/ \E w \in Workers : CounterCas(w)
    \/ \E w \in Workers : ChunksLoad(w)
    \/ \E w \in Workers : ChunksCas(w)
    \/ \E w \in Workers : WriteMarker(w)

\* Every spawned thread keeps running: each worker's steps are weakly fair.
FairSpec ==
    Init /\ [][LoopNext]_vars /\ \A w \in Workers : WF_vars(WorkerStep(w))

\* ---- vocabulary of the properties ----------------------------------------

\* The results handed out so far, each named by its receiver and position.
Issued == UNION {{<<w, k>> : k \in 1..Len(got[w])} : w \in Workers}
Result(h) == got[h[1]][h[2]]
Range(c) == {i \in 0..UsizeMax : c.offset <= i /\ i < c.end}
SeenNone(w) == nones[w] >= 1
AllSeenNone == \A w \in Workers : SeenNone(w)
IsCounter == obj = "counter"
IsChunks == obj = "chunks" /\ step >= 1
NumChunks == (Len(slice) + step - 1) \div step
\* A worker whose successful claim came after at least one failed attempt.
WonAfterRetry(w) == fails[w] >= 1 /\ Len(got[w]) >= 1 /\ pc[w] \in {"write", "idle"}

\* C1: the element ranges of any two chunk handles ever issued are disjoint.
ChunksDisjoint ==
    IsChunks =>
        \A h1 \in Issued, h2 \in Issued :
            h1 # h2 => Range(Result(h1)) \cap Range(Result(h2)) = {}

ChunksDisjointWitness ==
    /\ IsChunks
    /\ \E w1 \in Workers, w2 \in Workers :
          /\ w1 # w2
          /\ Len(got[w1]) >= 1 /\ Len(got[w2]) >= 1
          /\ WonAfterRetry(w2)
          /\ pc[w1] = "write" /\ pc[w2] = "write"

\* C2: no two successful Counter::next calls ever return the same value.
CounterNoDuplicate ==
    IsCounter =>
        \A h1 \in Issued, h2 \in Issued : h1 # h2 => Result(h1) # Result(h2)

CounterNoDuplicateWitness ==
    /\ IsCounter
    /\ \E w1 \in Workers, w2 \in Workers :
          /\ w1 # w2
          /\ Len(got[w1]) >= 2 /\ Len(got[w2]) >= 1
          /\ WonAfterRetry(w2)

\* C3: once every worker has seen None, the chunk indices issued are exactly
\* 0 .. ceil(L/S)-1, each issued once, and the ranges cover exactly [0, L).
ChunksTotal ==
    (IsChunks /\ AllSeenNone) =>
        /\ {Result(h).index : h \in Issued} = 0..(NumChunks - 1)
        /\ Cardinality(Issued) = NumChunks
        /\ UNION {Range(Result(h)) : h \in Issued} = 0..(Len(slice) - 1)

ChunksTotalWitness ==
    /\ IsChunks /\ AllSeenNone
    /\ Len(slice) % step # 0
    /\ NumChunks >= 2
    /\ \A w \in Workers : Len(got[w]) >= 1

\* C4: once every worker has seen None, the values returned across all
\* workers are exactly 0 .. N-1.
CounterTotal ==
    (IsCounter /\ AllSeenNone) =>
        {Result(h) : h \in Issued} = 0..(seed - 1)

CounterTotalWitness ==
    /\ IsCounter /\ AllSeenNone
    /\ seed >= 2
    /\ \A w \in Workers : Len(got[w]) >= 1

\* C5: a successful claim that advances the cursor from offset issues the
\* handle (offset / stride, [offset, min(offset + stride, L))), which is not
\* empty and has exactly stride elements unless it ends at L.
ChunkShape ==
    [][(IsChunks /\ next' # next) =>
         \E w \in Workers :
            /\ got'[w] = Append(got[w],
                           [index |-> next \div step,
                            offset |-> next,
                            end |-> Min(next + step, Len(slice))])
            /\ next' = Min(next + step, Len(slice))
            /\ next' > next
            /\ (next' # Len(slice) => next' - next = step)]_vars

ChunkShapeWitness ==
    /\ IsChunks
    /\ step >= 2
    /\ \E h \in Issued :
          /\ Result(h).index >= 1
          /\ Result(h).end = Len(slice)
          /\ Result(h).end - Result(h).offset < step

\* C6: once any call has returned None, nothing is issued any more and every
\* call that returns, returns None.
SomeSeenNone == \E w \in Workers : SeenNone(w)
ExhaustionIsFinal ==
    [][((IsCounter \/ IsChunks) /\ SomeSeenNone) =>
         /\ got' = got
         /\ \A w \in Workers :
               /\ pc'[w] # "panicked"
               /\ (pc[w] \in {"load", "cas"} /\ pc'[w] \notin {"load", "cas"}) =>
                     nones'[w] = nones[w] + 1]_vars

ExhaustionIsFinalCounterWitness ==
    /\ IsCounter /\ seed >= 1
    /\ \E w1 \in Workers, w2 \in Workers :
          w1 # w2 /\ nones[w1] >= 2 /\ nones[w2] >= 1 /\ Len(got[w2]) >= 1

ExhaustionIsFinalWitness ==
    \/ ExhaustionIsFinalCounterWitness
    \/ /\ IsChunks /\ Len(slice) >= 1
       /\ \E w1 \in Workers, w2 \in Workers :
             w1 # w2 /\ nones[w1] >= 2 /\ nones[w2] >= 1 /\ Len(got[w2]) >= 1

\* C7: a partitioner with stride 0 is rejected by new, so no claim_next call
\* ever executes against a partitioner whose stride is 0.
ZeroStrideRejected ==
    ~(obj = "chunks" /\ step = 0 /\ \E w \in Workers : pc[w] # "idle")

\* C8: no element is ever written by two workers, and once every worker has
\* seen None each element holds the marker of the worker that was issued the
\* chunk containing it.
WriteIsolation ==
    IsChunks =>
        /\ \A i \in 1..Len(slice) : Cardinality(writers[i]) <= 1
        /\ AllSeenNone =>
              \A i \in 1..Len(slice) :
                 \E h \in Issued :
                    /\ (i - 1) \in Range(Result(h))
                    /\ slice[i] = h[1]

WriteIsolationWitness ==
    /\ IsChunks /\ AllSeenNone
    /\ \E i \in 1..Len(slice), j \in 1..Len(slice) :
          slice[i] # 0 /\ slice[j] # 0 /\ slice[i] # slice[j]
    /\ \E w \in Workers : fails[w] >= 1

\* C9: every issued chunk starts at a multiple of the stride, no start offset
\* is issued twice, and the cursor is a multiple of the stride or equal to L.
ChunksAligned ==
    IsChunks =>
        /\ \A h \in Issued : Result(h).offset % step = 0
        /\ \A h1 \in Issued, h2 \in Issued :
              h1 # h2 => Result(h1).offset # Result(h2).offset
        /\ (next % step = 0 \/ next = Len(slice))

ChunksAlignedWitness ==
    /\ IsChunks
    /\ step >= 2
    /\ next = Len(slice) /\ next % step # 0
    /\ \E w \in Workers : WonAfterRetry(w) /\ Result(<<w, Len(got[w])>>).offset >= step

\* C10: a call returns None only from a load that read the terminal cursor
\* value, when everything has been issued; a failed compare_exchange never
\* makes a call return None.
Terminal ==
    IF obj = "counter"
      THEN count = 0 /\ Cardinality({Result(h) : h \in Issued}) = seed
      ELSE /\ next = Len(slice)
           /\ UNION {Range(Result(h)) : h \in Issued} = 0..(Len(slice) - 1)

NoneOnlyWhenExhausted ==
    [][(IsCounter \/ IsChunks) =>
         \A w \in Workers :
            /\ pc[w] # pc'[w] => pc'[w] \in {"idle", "load", "cas", "write"}
            /\ nones'[w] # nones[w] => (pc[w] = "load" /\ Terminal)
            /\ (pc[w] = "cas" /\ pc'[w] # "cas" /\ got'[w] = got[w]) =>
                  (pc'[w] = "load" /\ nones'[w] = nones[w])]_vars

NoneOnlyWhenExhaustedWitness ==
    /\ IsCounter \/ (IsChunks /\ Len(slice) >= 2)
    /\ \E w \in Workers : fails[w] >= 1 /\ pc[w] = "idle" /\ nones[w] = 1
                          /\ Len(got[w]) = 0

\* The shared cursor of the constructed object.
Cursor == IF obj = "counter" THEN count ELSE next
CursorUnchanged == count' = count /\ next' = next
\* Worker w takes a step inside next().
InNext(w) == pc[w] \in {"load", "cas"} /\ pc'[w] # pc[w]

\* C12: the Counter cursor stays in [0, N] and each successful advance lowers
\* it by exactly 1; the AtomicChunksMut cursor stays in [0, L] and each
\* successful advance raises it; neither ever moves the other way, so the
\* assertion current <= slice.len() never fails.
CursorMonotonic ==
    [][/\ IsCounter =>
            /\ count \in 0..seed /\ count' \in 0..seed
            /\ count' <= count
            /\ Len(log') > Len(log) => count' = count - 1
       /\ IsChunks =>
            /\ next \in 0..Len(slice) /\ next' \in 0..Len(slice)
            /\ next' >= next
            /\ Len(log') > Len(log) => next' > next
            /\ \A w \in Workers : pc'[w] # "panicked"]_vars

CursorMonotonicWitness ==
    /\ IsChunks
    /\ Len(log) >= 2
    /\ 0 < next /\ next = Len(slice)
    /\ \E w \in Workers : pc[w] = "load" /\ fails[w] >= 1

\* C13: the k-th successful advance of the Counter issues N-k, the k-th
\* successful advance of AtomicChunksMut issues chunk k-1 starting at
\* (k-1)*stride, whoever performs it, and every intermediate cursor value is
\* the target of exactly one successful advance.
Received(w, r) == \E i \in 1..Len(got[w]) : got[w][i] = r
LinearOrder ==
    /\ IsCounter =>
          /\ Len(log) = seed - count
          /\ \A k \in 1..Len(log) :
                /\ log[k].from = seed - k + 1
                /\ log[k].to = seed - k
                /\ Received(log[k].by, seed - k)
    /\ IsChunks =>
          /\ \A k \in 1..Len(log) :
                /\ log[k].from = (k - 1) * step
                /\ log[k].to = Min(k * step, Len(slice))
                /\ Received(log[k].by, [index |-> k - 1,
                                        offset |-> (k - 1) * step,
                                        end |-> log[k].to])
          /\ \A j \in 1..Len(log), k \in 1..Len(log) :
                j # k => log[j].to # log[k].to
          /\ next = IF Len(log) = 0 THEN 0 ELSE log[Len(log)].to

LinearOrderWitness ==
    /\ IsChunks /\ step >= 2
    /\ Len(log) >= 2
    /\ log[1].by # log[2].by
    /\ \E w \in Workers : fails[w] >= 1

\* C14: whenever a compare_exchange fails, another caller's compare_exchange
\* on the same cursor value succeeded between the failing caller's load and
\* its attempt.
LockFreeProgress ==
    [][(IsCounter \/ IsChunks) =>
         \A w \in Workers :
            fails'[w] > fails[w] =>
               \E k \in (seen[w] + 1)..Len(log) :
                  /\ log[k].by # w
                  /\ log[k].from = current[w]
                  /\ log[k].to # current[w]]_vars

LockFreeProgressWitness ==
    /\ IsCounter \/ IsChunks
    /\ \E w \in Workers : pc[w] = "load" /\ fails[w] >= 2

\* C15: under weak fairness of each worker's steps, workers that loop on
\* next() until they see None all eventually see None and stop.
AllStopped == \A w \in Workers : pc[w] = "idle" /\ SeenNone(w)
JointExhaustion == (IsCounter \/ IsChunks) ~> (AllSeenNone /\ AllStopped)

JointExhaustionWitness ==
    /\ IsCounter \/ IsChunks
    /\ AllSeenNone
    /\ Len(log) >= 2
    /\ \A w \in Workers : Len(got[w]) >= 1
    /\ AllStopped
    /\ \E v \in Workers : fails[v] >= 1

\* C16: one Counter::next call fails at most N compare_exchange attempts and
\* one AtomicChunksMut::next call at most ceil(L/stride).
BoundedRetry ==
    /\ IsCounter => \A w \in Workers : fails[w] <= seed
    /\ IsChunks => \A w \in Workers : fails[w] <= NumChunks

BoundedRetryWitness ==
    \E w \in Workers :
       \/ IsCounter /\ seed >= 2 /\ fails[w] = seed
       \/ IsChunks /\ NumChunks >= 2 /\ fails[w] = NumChunks

\* C17: the cursor changes only in a successful compare_exchange; a load, a
\* failed compare_exchange and a call returning None leave it unchanged and
\* issue nothing; no step of next() changes the buffer or the stride.
FrameOfSteps ==
    [][obj # "none" =>
         /\ ~CursorUnchanged =>
               \E w \in Workers :
                  /\ pc[w] = "cas" /\ pc'[w] # "cas"
                  /\ Cursor = current[w]
                  /\ fails'[w] = fails[w]
                  /\ log' = Append(log, [by |-> w, from |-> Cursor, to |-> Cursor'])
         /\ \A w \in Workers :
               /\ (pc[w] = "load" /\ pc'[w] # "load") =>
                     CursorUnchanged /\ got' = got /\ log' = log
               /\ fails'[w] > fails[w] =>
                     CursorUnchanged /\ got' = got /\ log' = log
               /\ nones'[w] > nones[w] =>
                     CursorUnchanged /\ got' = got /\ log' = log
               /\ InNext(w) => slice' = slice /\ step' = step]_vars

FrameOfStepsWitness ==
    /\ IsChunks
    /\ \E i \in 1..Len(slice) : slice[i] # 0
    /\ \E w \in Workers : fails[w] >= 1 /\ nones[w] >= 1 /\ pc[w] = "idle"

\* C18: at every moment the Counter has issued exactly the values
\* cursor .. N-1, N - cursor of them, and the ranges issued by AtomicChunksMut
\* cover exactly [0, cursor).
Accounting ==
    /\ IsCounter =>
          /\ Cardinality(Issued) = seed - count
          /\ {Result(h) : h \in Issued} = count..(seed - 1)
          /\ Cardinality(Issued) <= seed
    /\ IsChunks =>
          UNION {Range(Result(h)) : h \in Issued} = 0..(next - 1)

AccountingWitness ==
    \/ /\ IsCounter
       /\ 0 < count /\ count < seed
       /\ \E w \in Workers : pc[w] = "cas" /\ current[w] # count
    \/ /\ IsChunks
       /\ 0 < next /\ next < Len(slice)
       /\ \E w \in Workers : pc[w] = "cas" /\ current[w] # next

\* C19: the values one thread receives are strictly decreasing and the chunk
\* indices one thread receives strictly increasing; a caller draining alone
\* receives N-1, ..., 0, resp. the chunks 0, 1, ..., ceil(L/stride)-1 with the
\* k-th view starting at k*stride.
Alone(w) ==
    \A v \in Workers \ {w} : pc[v] = "idle" /\ got[v] = <<>> /\ nones[v] = 0
PerCallerOrder ==
    /\ IsCounter =>
          \A w \in Workers :
             /\ \A i \in 1..Len(got[w]), j \in 1..Len(got[w]) :
                   i < j => got[w][i] > got[w][j]
             /\ (Alone(w) /\ SeenNone(w)) =>
                   got[w] = [k \in 1..seed |-> seed - k]
    /\ IsChunks =>
          \A w \in Workers :
             /\ \A i \in 1..Len(got[w]), j \in 1..Len(got[w]) :
                   i < j => got[w][i].index < got[w][j].index
             /\ (Alone(w) /\ SeenNone(w)) =>
                   /\ Len(got[w]) = NumChunks
                   /\ \A k \in 1..Len(got[w]) :
                         /\ got[w][k].index = k - 1
                         /\ got[w][k].offset = (k - 1) * step

PerCallerOrderWitness ==
    /\ IsChunks
    /\ \E w \in Workers, v \in Workers :
          /\ Len(got[w]) >= 2 /\ Len(got[v]) >= 1
          /\ got[w][1].index < got[v][1].index
          /\ got[v][1].index < got[w][2].index

\* C20: with slice.len() <= isize::MAX and any stride >= 1, current + step
\* never exceeds usize::MAX when next() computes it, so end is never below
\* current; and Counter::next computes current - 1 only for current >= 1.
NoWrap ==
    /\ (IsChunks /\ Len(slice) <= IsizeMax) =>
          /\ next < Len(slice) => UsizeAdd(next, step) = {next + step}
          /\ \A w \in Workers :
                /\ pc[w] # "panicked"
                /\ pc[w] = "cas" =>
                      /\ current[w] + step <= UsizeMax
                      /\ end[w] = Min(current[w] + step, Len(slice))
                      /\ end[w] >= current[w]
    /\ IsCounter =>
          \A w \in Workers :
             pc[w] = "cas" => current[w] >= 1 /\ CounterNewValue(current[w]) >= 0

NoWrapWitness ==
    /\ IsChunks
    /\ Len(slice) = Min(MaxLen, IsizeMax)
    /\ \E w \in Workers : pc[w] = "cas" /\ current[w] + step = UsizeMax
    /\ \E w \in Workers : Len(got[w]) >= 1

====
